---- MODULE Spec2Model ----
(***************************************************************************)
(* State-machine model of tardis/plasma/radiative_properties.py:           *)
(*   TauSobolev              (Sobolev optical depth, cached g lookups)     *)
(*   TransitionProbabilities (macro-atom transition probabilities)         *)
(* Real numbers are exact rationals [num, den] with den > 0; den = 0       *)
(* encodes the IEEE results of a division by zero (num < 0: -inf,          *)
(* num = 0: nan).  Tables are functions line -> shell -> value, rows and   *)
(* columns numbered from 0 as in the source.                               *)
(***************************************************************************)
EXTENDS Integers, FiniteSets, Sequences, TLC

\* ------------------------------------------------------------- bounds
\* TauSobolev computes every entry of its (lines x shells) tables from that
\* entry's own gathered values: one line between two levels in one shell
\* exercises each rule.  Tables of several lines and shells are those of
\* TransitionProbabilities below.
Lines == {0}
Shells == {0}
Levels == {0, 1}
NLevels == Cardinality(Levels)
GValues == {1, 2}
MaxN == 2
MaxTime == 2

\* Level index values a caller may pass: the valid rows 0 .. NLevels-1, -1
\* (which Python indexing counts from the end), and one value beyond either
\* end of the table.
IndexValues == {0 - NLevels - 1} \cup ((0 - 1) .. NLevels)
IndexArrays == [Lines -> IndexValues]
LevelRows == [g : GValues, metastable : BOOLEAN]
LevelsTables == [Levels -> LevelRows]
DensityTables == [Levels -> [Shells -> 0 .. MaxN]]
LinesTables == [Lines -> [f_lu : {2}, wavelength_cm : {3}]]
Times == (0 - 1) .. MaxTime

\* ------------------------------------------------------------- rationals
Rat(n, d) == [num |-> n, den |-> d]
Zero == Rat(0, 1)
One == Rat(1, 1)
NegInf == Rat(0 - 1, 0)
NaN == Rat(0, 0)
REq(a, b) == a.den > 0 /\ b.den > 0 /\ a.num * b.den = b.num * a.den
RNeg(a) == (a.den > 0 /\ a.num < 0) \/ (a.den = 0 /\ a.num < 0)
RIsNegInf(a) == a.den = 0 /\ a.num < 0
RECURSIVE GCD(_, _)
GCD(a, b) == IF b = 0 THEN a ELSE GCD(b, a % b)
Abs(n) == IF n < 0 THEN 0 - n ELSE n
\* n / d in lowest terms, d > 0
Reduced(n, d) ==
    LET g == GCD(Abs(n), d)
    IN  Rat(n \div g, d \div g)
RMul(a, b) == IF a.den = 0 \/ b.den = 0 THEN NaN
              ELSE Reduced(a.num * b.num, a.den * b.den)
RAdd(a, b) == IF a.den = 0 \/ b.den = 0 THEN NaN
              ELSE Reduced(a.num * b.den + b.num * a.den, a.den * b.den)
\* a / b for b # 0
RDiv(a, b) ==
    IF b.num > 0 THEN Reduced(a.num * b.den, a.den * b.num)
    ELSE Reduced(0 - (a.num * b.den), 0 - (a.den * b.num))

\* ------------------------------------------------------------- TauSobolev
VARIABLES _g_lower, _g_upper,
          lines, levels, level_number_density,
          lines_lower_level_index, lines_upper_level_index,
          ret

tsVars == <<_g_lower, _g_upper, lines, levels, level_number_density,
            lines_lower_level_index, lines_upper_level_index, ret>>

\* the state of a TransitionProbabilities instance and of its last call
VARIABLES tau_sobolevs, tau_order, has_beta_sobolevs, beta_sobolevs, beta_order,
          beta_sobolevs_precalculated, j_blues, stimulated_emission_factor,
          macro_atom_data, block_references, tp_ret

tpVars == <<tau_sobolevs, tau_order, has_beta_sobolevs, beta_sobolevs, beta_order,
            beta_sobolevs_precalculated, j_blues, stimulated_emission_factor,
            macro_atom_data, block_references, tp_ret>>

vars == <<tsVars, tpVars>>

\* pi e^2 / (m_e c) in cgs, reduced to a number: 0.0265 = 53 / 2000
sobolev_coefficient == Rat(53, 2000)

\* Python / numpy row selection: a negative index counts from the end.
InRange(i, n) == (0 - n) <= i /\ i < n
Row(i, n) == IF i < 0 THEN i + n ELSE i
AllInRange(idx, n) == \A l \in DOMAIN idx : InRange(idx[l], n)

\* ndarray.take(idx, axis=0, mode='raise') on a table with n rows
take(table, idx, n) == [l \in DOMAIN idx |-> table[Row(idx[l], n)]]

\* levels.g.iloc[idx] as a float array
g_iloc(lv, idx) == [l \in DOMAIN idx |-> lv[Row(idx[l], NLevels)].g]

\* get_g_lower / get_g_upper: the array returned, which is also the cache
\* after the call.  cache is <<>> (None) or <<array>>.
get_g_always(cache, lv, idx) ==
    IF cache = <<>> \/ AllInRange(idx, NLevels) THEN g_iloc(lv, idx) ELSE cache[1]
get_g(cache, lv, idx) == IF cache = <<>> THEN g_iloc(lv, idx) ELSE cache[1]

\* 1 - ((g_lower * n_upper) / (g_upper * n_lower)) in IEEE arithmetic
RawFactor(gl, gu, nl, nu) ==
    IF gu * nl > 0 THEN Rat(gu * nl - gl * nu, gu * nl)
    ELSE IF gl * nu > 0 THEN NegInf
    ELSE NaN

\* stimulated_emission_factor[n_lower == 0.0] = 0.0
MaskZeroLower(v, nl) == IF nl = 0 THEN Zero ELSE v
\* stimulated_emission_factor[np.isneginf(...)] = 0.0
MaskNegInf(v) == IF RIsNegInf(v) THEN Zero ELSE v
\* stimulated_emission_factor[meta_stable_upper & (factor < 0)] = 0.0
MaskMetastable_none(v, meta) == v
MaskMetastable_all(v, meta) == IF RNeg(v) THEN Zero ELSE v
MaskMetastable(v, meta) == IF meta /\ RNeg(v) THEN Zero ELSE v

_calculate_stimulated_emission_factor(gl, gu, lv, n_lower, n_upper, up) ==
    LET meta_stable_upper == [l \in Lines |-> lv[Row(up[l], NLevels)].metastable]
    IN  [l \in Lines |-> [s \in Shells |->
            MaskMetastable(
                MaskNegInf(
                    MaskZeroLower(
                        RawFactor(gl[l], gu[l], n_lower[l][s], n_upper[l][s]),
                        n_lower[l][s])),
                meta_stable_upper[l])]]

\* sobolev_coefficient * f_lu * wavelength * time_explosion * n_lower * factor
TauEntry_notime(f, w, t, nl, sef) ==
    RMul(sobolev_coefficient, RMul(Rat(f * w * nl, 1), sef))
TauEntry_nofactor(f, w, t, nl, sef) ==
    RMul(sobolev_coefficient, Rat(f * w * t * nl, 1))
TauEntry(f, w, t, nl, sef) ==
    RMul(sobolev_coefficient, RMul(Rat(f * w * t * nl, 1), sef))

ZeroTable == [l \in Lines |-> [s \in Shells |-> Zero]]
NoArray == [l \in Lines |-> 0]
NoRet == [op |-> "none", status |-> "none", time |-> 0,
          tau |-> ZeroTable, sef |-> ZeroTable, g |-> NoArray,
          fresh |-> FALSE, prev |-> <<>>]

tsInit ==
    /\ _g_lower = <<>>
    /\ _g_upper = <<>>
    /\ lines \in LinesTables
    /\ levels \in LevelsTables
    /\ level_number_density \in DensityTables
    /\ lines_lower_level_index \in IndexArrays
    /\ lines_upper_level_index \in IndexArrays
    /\ ret = NoRet

\* TauSobolev(plasma_parent): a new instance replaces the old one, both
\* caches None
NewTauSobolev ==
    /\ _g_lower # <<>> \/ _g_upper # <<>>
    /\ _g_lower' = <<>>
    /\ _g_upper' = <<>>
    /\ ret' = NoRet
    /\ UNCHANGED <<lines, levels, level_number_density,
                   lines_lower_level_index, lines_upper_level_index>>
    /\ UNCHANGED tpVars

\* The plasma-state layer supplies other tables for the next evaluation:
\* another row of Levels, another entry of LevelNumberDensity, another
\* entry of an index array.
SetLevels ==
    /\ \E i \in Levels, r \in LevelRows :
          /\ r # levels[i]
          /\ levels' = [levels EXCEPT ![i] = r]
    /\ ret' = NoRet
    /\ UNCHANGED <<_g_lower, _g_upper, lines, level_number_density,
                   lines_lower_level_index, lines_upper_level_index>>
    /\ UNCHANGED tpVars

SetLevelNumberDensity ==
    /\ \E i \in Levels, s \in Shells, n \in 0 .. MaxN :
          /\ n # level_number_density[i][s]
          /\ level_number_density' = [level_number_density EXCEPT ![i][s] = n]
    /\ ret' = NoRet
    /\ UNCHANGED <<_g_lower, _g_upper, lines, levels,
                   lines_lower_level_index, lines_upper_level_index>>
    /\ UNCHANGED tpVars

SetLowerLevelIndex ==
    /\ \E l \in Lines, i \in IndexValues :
          /\ i # lines_lower_level_index[l]
          /\ lines_lower_level_index' = [lines_lower_level_index EXCEPT ![l] = i]
    /\ ret' = NoRet
    /\ UNCHANGED <<_g_lower, _g_upper, lines, levels, level_number_density,
                   lines_upper_level_index>>
    /\ UNCHANGED tpVars

SetUpperLevelIndex ==
    /\ \E l \in Lines, i \in IndexValues :
          /\ i # lines_upper_level_index[l]
          /\ lines_upper_level_index' = [lines_upper_level_index EXCEPT ![l] = i]
    /\ ret' = NoRet
    /\ UNCHANGED <<_g_lower, _g_upper, lines, levels, level_number_density,
                   lines_lower_level_index>>
    /\ UNCHANGED tpVars

\* get_g_lower(levels, lines_lower_level_index) called on its own
GetGLower ==
    /\ IF _g_lower = <<>> /\ ~AllInRange(lines_lower_level_index, NLevels)
       THEN /\ ret' = [NoRet EXCEPT !.op = "get_g_lower", !.status = "IndexError"]
            /\ UNCHANGED _g_lower
       ELSE LET g == get_g(_g_lower, levels, lines_lower_level_index)
            IN  /\ _g_lower' = <<g>>
                /\ ret' = [NoRet EXCEPT !.op = "get_g_lower", !.status = "ok",
                                        !.g = g, !.fresh = (_g_lower = <<>>)]
    /\ UNCHANGED <<_g_upper, lines, levels, level_number_density,
                   lines_lower_level_index, lines_upper_level_index>>
    /\ UNCHANGED tpVars

\* get_g_upper(levels, lines_upper_level_index) called on its own
GetGUpper ==
    /\ IF _g_upper = <<>> /\ ~AllInRange(lines_upper_level_index, NLevels)
       THEN /\ ret' = [NoRet EXCEPT !.op = "get_g_upper", !.status = "IndexError"]
            /\ UNCHANGED _g_upper
       ELSE LET g == get_g(_g_upper, levels, lines_upper_level_index)
            IN  /\ _g_upper' = <<g>>
                /\ ret' = [NoRet EXCEPT !.op = "get_g_upper", !.status = "ok",
                                        !.g = g, !.fresh = (_g_upper = <<>>)]
    /\ UNCHANGED <<_g_lower, lines, levels, level_number_density,
                   lines_lower_level_index, lines_upper_level_index>>
    /\ UNCHANGED tpVars

\* calculate(lines, levels, level_number_density, lines_upper_level_index,
\*           lines_lower_level_index, time_explosion)
Calculate(t) ==
    /\ IF ~AllInRange(lines_lower_level_index, NLevels)
          \/ ~AllInRange(lines_upper_level_index, NLevels)
       THEN \* take(..., mode='raise') at the first gather: nothing is cached
            /\ ret' = [NoRet EXCEPT !.op = "calculate", !.status = "IndexError",
                                    !.time = t]
            /\ UNCHANGED <<_g_lower, _g_upper>>
       ELSE LET n_lower == take(level_number_density, lines_lower_level_index, NLevels)
                n_upper == take(level_number_density, lines_upper_level_index, NLevels)
                gl == get_g(_g_lower, levels, lines_lower_level_index)
                gu == get_g(_g_upper, levels, lines_upper_level_index)
                sef == _calculate_stimulated_emission_factor(
                           gl, gu, levels, n_lower, n_upper, lines_upper_level_index)
                tau == [l \in Lines |-> [s \in Shells |->
                           TauEntry(lines[l].f_lu, lines[l].wavelength_cm, t,
                                    n_lower[l][s], sef[l][s])]]
            IN  /\ _g_lower' = <<gl>>
                /\ _g_upper' = <<gu>>
                /\ ret' = [op |-> "calculate", status |-> "ok", time |-> t,
                           tau |-> tau, sef |-> sef, g |-> NoArray,
                           fresh |-> (_g_lower = <<>> /\ _g_upper = <<>>),
                           prev |-> IF ret.op = "calculate" /\ ret.status = "ok"
                                       /\ t = 2 * ret.time
                                    THEN <<ret.tau>> ELSE <<>>]
    /\ UNCHANGED <<lines, levels, level_number_density,
                   lines_lower_level_index, lines_upper_level_index>>
    /\ UNCHANGED tpVars

\* ------------------------------------------------- TransitionProbabilities
MaxLines == 2
MaxShells == 2
Transitions == {0, 1, 2}
NTransitions == Cardinality(Transitions)

NumRows(table) == Cardinality(DOMAIN table)
NumCols(table) == Cardinality(DOMAIN table[0])

\* A (nL x nS) table whose entries run through vals, starting at vals[k+1],
\* along the column-major traversal: neighbouring entries differ.
PatternTable(vals, k, nL, nS) ==
    [l \in 0 .. (nL - 1) |-> [s \in 0 .. (nS - 1) |->
        vals[((k + l + nL * s) % Len(vals)) + 1]]]

TauValues == <<0, 1, 2, 3>>
JBluesValues == <<1, 2, 0>>
FactorValues == <<Rat(1, 2), Rat(0 - 1, 1), Zero>>
BetaValues == <<Rat(1, 2), Zero, One>>
ProbabilityValues == <<0, 1, 2>>
FactorShifts == {0, 1, 2}

RECURSIVE SortedSeq(_)
SortedSeq(S) ==
    IF S = {} THEN <<>>
    ELSE LET m == CHOOSE x \in S : \A y \in S : x <= y
         IN  <<m>> \o SortedSeq(S \ {m})

\* macro_atom_references.block_references: strictly increasing offsets, the
\* first block starting at transition 0
BlockReferenceArrays == {SortedSeq({0} \cup S) : S \in SUBSET (Transitions \ {0})}

\* transition_type: 1 is upward (absorption), 0 and -1 are the other types
MacroAtomTables(nL) ==
    [transition_probability :
         {[t \in Transitions |-> ProbabilityValues[((k + t) % Len(ProbabilityValues)) + 1]] :
              k \in 0 .. (Len(ProbabilityValues) - 1)},
     transition_type : [Transitions -> {0, 1}],
     lines_idx : [Transitions -> 0 .. (nL - 1)]]

\* macro_atom.calculate_beta_sobolev: the escape probability of one optical
\* depth, in [0, 1], decreasing in tau, 1 at tau = 0
BetaSobolev(tau) == Rat(1, 1 + tau)

\* ndarray.ravel(order='F') is a view of the array when the array is
\* Fortran-contiguous (any array of one row or one column is), a copy otherwise.
RavelFIsView(order, nL, nS) == order = "F" \/ nL = 1 \/ nS = 1

\* values.ravel(order='F'): column-major traversal, position l + nL * s
RavelF(table) ==
    LET nL == NumRows(table)
        nS == NumCols(table)
    IN  [i \in 0 .. (nL * nS - 1) |-> table[i % nL][i \div nL]]

\* the (nL x nS) array a column-major buffer is a view of
UnravelF(flat, nL, nS) ==
    [l \in 0 .. (nL - 1) |-> [s \in 0 .. (nS - 1) |-> flat[l + nL * s]]]

\* Step 1: calculate_beta_sobolev(tau.ravel('F'), beta.ravel('F')) fills its
\* second argument in place; the result is the array self.beta_sobolevs
\* holds afterwards.
BetaAfterRoutine(tau, beta, order) ==
    LET nL == NumRows(tau)
        nS == NumCols(tau)
        tau_flat == RavelF(tau)
        out == [i \in DOMAIN tau_flat |-> BetaSobolev(tau_flat[i])]
    IN  IF RavelFIsView(order, nL, nS) THEN UnravelF(out, nL, nS) ELSE beta

\* Step 2: transition_probability[:, newaxis] * beta_sobolevs.take(lines_idx)
RawWeights(mad, beta) ==
    LET b == take(beta, mad.lines_idx, NumRows(beta))
    IN  [t \in Transitions |-> [s \in DOMAIN b[t] |->
            RMul(Rat(mad.transition_probability[t], 1), b[t][s])]]

\* Step 3: transition_probabilities[transition_up_filter] *= j_blues * factor
transition_up_filter_all(mad) == [t \in Transitions |-> TRUE]
transition_up_filter(mad) == [t \in Transitions |-> mad.transition_type[t] = 1]

UpwardCorrection(w, mad, jb, sef) ==
    LET up == transition_up_filter(mad)
        j == take(jb, mad.lines_idx, NumRows(jb))
        macro_stimulated_emission == take(sef, mad.lines_idx, NumRows(sef))
    IN  [t \in Transitions |-> [s \in DOMAIN w[t] |->
            IF up[t]
            THEN RMul(w[t][s], RMul(Rat(j[t][s], 1), macro_stimulated_emission[t][s]))
            ELSE w[t][s]]]

\* np.hstack((block_references, len(macro_atom_data)))
BlockReferences_nosentinel(refs, mad) == refs
BlockReferences(refs, mad) == Append(refs, Cardinality(DOMAIN mad.lines_idx))

RECURSIVE ColumnSum(_, _, _, _)
ColumnSum(w, s, first, last) ==
    IF first > last THEN Zero
    ELSE RAdd(w[first][s], ColumnSum(w, s, first + 1, last))

\* macro_atom.normalize_transition_probabilities(p, refs): for every block
\* refs[i] .. refs[i+1]-1 and every shell, divide the block's entries by
\* their sum, unless the sum is 0
normalize_transition_probabilities(w, refs) ==
    [t \in DOMAIN w |-> [s \in DOMAIN w[t] |->
        LET blocks == {i \in 1 .. (Len(refs) - 1) : refs[i] <= t /\ t < refs[i + 1]}
        IN  IF blocks = {} THEN w[t][s]
            ELSE LET i == CHOOSE x \in blocks : TRUE
                     norm_factor == ColumnSum(w, s, refs[i], refs[i + 1] - 1)
                 IN  IF norm_factor.num = 0 THEN w[t][s]
                     ELSE RDiv(w[t][s], norm_factor)]]

NoTpRet == [status |-> "none", raw |-> <<>>, transition_probabilities |-> <<>>]

tpInit ==
    \E nL \in 1 .. MaxLines, nS \in 1 .. MaxShells :
        /\ tau_sobolevs = PatternTable(TauValues, 0, nL, nS)
        /\ tau_order \in {"C", "F"}
        /\ j_blues = PatternTable(JBluesValues, 0, nL, nS)
        /\ stimulated_emission_factor \in
               {PatternTable(FactorValues, k, nL, nS) : k \in FactorShifts}
        /\ macro_atom_data \in MacroAtomTables(nL)
        /\ block_references \in BlockReferenceArrays
        /\ \/ /\ has_beta_sobolevs = FALSE
              /\ beta_sobolevs_precalculated = FALSE
              /\ beta_sobolevs = <<>>
              /\ beta_order = "none"
           \/ /\ has_beta_sobolevs = TRUE
              /\ beta_sobolevs_precalculated = TRUE
              /\ beta_sobolevs = PatternTable(BetaValues, 0, nL, nS)
              /\ beta_order = tau_order
        /\ tp_ret = NoTpRet

\* TransitionProbabilities.calculate(macro_atom_data).  The body's self is
\* the instance that owns tau_sobolevs, beta_sobolevs, j_blues and
\* stimulated_emission_factor; self.atom_data.macro_atom_data is the table
\* passed as macro_atom_data.
TPCalculate ==
    LET nL == NumRows(tau_sobolevs)
        nS == NumCols(tau_sobolevs)
        \* np.zeros_like(self.tau_sobolevs.values): same shape and layout
        beta0 == IF has_beta_sobolevs THEN beta_sobolevs
                 ELSE [l \in 0 .. (nL - 1) |-> [s \in 0 .. (nS - 1) |-> Zero]]
        order0 == IF has_beta_sobolevs THEN beta_order ELSE tau_order
        beta1 == IF beta_sobolevs_precalculated THEN beta0
                 ELSE BetaAfterRoutine(tau_sobolevs, beta0, order0)
        raw == UpwardCorrection(RawWeights(macro_atom_data, beta1),
                                macro_atom_data, j_blues, stimulated_emission_factor)
        refs == BlockReferences(block_references, macro_atom_data)
    IN  /\ has_beta_sobolevs' = TRUE
        /\ beta_sobolevs' = beta1
        /\ beta_order' = order0
        /\ tp_ret' = [status |-> "ok", raw |-> raw,
                      transition_probabilities |->
                          normalize_transition_probabilities(raw, refs)]
        /\ UNCHANGED <<tau_sobolevs, tau_order, beta_sobolevs_precalculated, j_blues,
                       stimulated_emission_factor, macro_atom_data, block_references>>
        /\ UNCHANGED tsVars

\* ------------------------------------------------------------- specifications
tsIdle ==
    /\ _g_lower = <<>>
    /\ _g_upper = <<>>
    /\ lines = <<>>
    /\ levels = <<>>
    /\ level_number_density = <<>>
    /\ lines_lower_level_index = <<>>
    /\ lines_upper_level_index = <<>>
    /\ ret = NoRet

tpIdle ==
    /\ tau_sobolevs = <<>>
    /\ tau_order = "none"
    /\ has_beta_sobolevs = FALSE
    /\ beta_sobolevs = <<>>
    /\ beta_order = "none"
    /\ beta_sobolevs_precalculated = FALSE
    /\ j_blues = <<>>
    /\ stimulated_emission_factor = <<>>
    /\ macro_atom_data = <<>>
    /\ block_references = <<>>
    /\ tp_ret = NoTpRet

tsNext ==
    \/ NewTauSobolev
    \/ SetLevels
    \/ SetLevelNumberDensity
    \/ SetLowerLevelIndex
    \/ SetUpperLevelIndex
    \/ GetGLower
    \/ GetGUpper
    \/ \E t \in Times : Calculate(t)

tpNext == TPCalculate

\* TauSobolev on its own
Init == tsInit /\ tpIdle
Next == tsNext
Spec == Init /\ [][Next]_vars

\* TransitionProbabilities on its own
InitTP == tpInit /\ tsIdle
NextTP == tpNext
SpecTP == InitTP /\ [][NextTP]_vars

\* ------------------------------------------------------------- TauSobolev claims
CalcOk == ret.op = "calculate" /\ ret.status = "ok"

\* the levels and populations the last call gathered for line l, shell s
LowerRow(l) == Row(lines_lower_level_index[l], NLevels)
UpperRow(l) == Row(lines_upper_level_index[l], NLevels)
UpperMetastable(l) == levels[UpperRow(l)].metastable
NLower(l, s) == level_number_density[LowerRow(l)][s]
NUpper(l, s) == level_number_density[UpperRow(l)][s]
RNonNeg(a) == a.den > 0 /\ a.num >= 0

\* 1 - (gl * n_upper) / (gu * n_lower) for line l, shell s, n_lower > 0
FactorWith(gl, gu, l, s) ==
    Rat(gu * NLower(l, s) - gl * NUpper(l, s), gu * NLower(l, s))

\* C2: after calculate, for every line whose upper level is metastable and
\* every shell, the stimulated-emission factor is not negative, whatever
\* n_lower and n_upper are.
C2_MetastableFactorNeverNegative ==
    CalcOk => \A l \in Lines, s \in Shells :
                  UpperMetastable(l) => RNonNeg(ret.sef[l][s])

\* C2 witness: a metastable-upper line whose unclamped factor is negative
\* (g_lower * n_upper > g_upper * n_lower) and was forced to 0.
C2_Witness ==
    /\ CalcOk
    /\ \E l \in Lines, s \in Shells :
          /\ UpperMetastable(l)
          /\ NLower(l, s) > 0
          /\ _g_lower[1][l] * NUpper(l, s) > _g_upper[1][l] * NLower(l, s)
          /\ ret.sef[l][s] = Zero

\* C3 as stated: for every line whose upper level is not metastable and every
\* shell with n_lower > 0, the factor equals 1 - (g_lower * n_upper) /
\* (g_upper * n_lower) with the statistical weights of the line's own lower
\* and upper levels, negative values included.
C3_FactorOfOwnLevels ==
    CalcOk => \A l \in Lines, s \in Shells :
                  (~UpperMetastable(l) /\ NLower(l, s) > 0)
                  => REq(ret.sef[l][s],
                         FactorWith(levels[LowerRow(l)].g, levels[UpperRow(l)].g, l, s))

\* C3 amended: for every line whose upper level is not metastable and every
\* shell with n_lower > 0, the factor equals 1 - (g_lower * n_upper) /
\* (g_upper * n_lower) with the g_lower and g_upper arrays the instance has
\* cached, negative values retained; these are the weights of the line's own
\* levels when this call filled both caches.
C3_FactorOfCachedWeights ==
    CalcOk => \A l \in Lines, s \in Shells :
                  (~UpperMetastable(l) /\ NLower(l, s) > 0)
                  => /\ REq(ret.sef[l][s],
                            FactorWith(_g_lower[1][l], _g_upper[1][l], l, s))
                     /\ ret.fresh =>
                            /\ _g_lower[1][l] = levels[LowerRow(l)].g
                            /\ _g_upper[1][l] = levels[UpperRow(l)].g

\* C3 witness: a line whose upper level is not metastable keeps a negative
\* factor.
C3_Witness ==
    /\ CalcOk
    /\ \E l \in Lines, s \in Shells :
          /\ ~UpperMetastable(l)
          /\ NLower(l, s) > 0
          /\ RNeg(ret.sef[l][s])

\* C4: on one instance, with the same lines, levels, level_number_density and
\* index arrays, the table computed with time_explosion = 2t is, entry by
\* entry, twice the table computed with time_explosion = t.
C4_LinearInTime ==
    (CalcOk /\ ret.prev # <<>>)
    => \A l \in Lines, s \in Shells :
           REq(ret.tau[l][s], RMul(Rat(2, 1), ret.prev[1][l][s]))

\* C4 witness: a call with t = 1 followed by a call with t = 2 on the same
\* inputs, with a non-zero optical depth.
C4_Witness ==
    /\ CalcOk
    /\ ret.prev # <<>>
    /\ ret.time = 2
    /\ \E l \in Lines, s \in Shells : ret.tau[l][s].num # 0

\* C5: on one instance the g_lower (g_upper) array is computed at most once,
\* on the first call of get_g_lower (get_g_upper), from that call's levels
\* and index array; every later call, whatever its arguments, returns the
\* array computed first; only a new instance resets it.
C5_CacheComputedOnce ==
    [][ \/ NewTauSobolev
        \/ /\ _g_lower # <<>> => _g_lower' = _g_lower
           /\ _g_upper # <<>> => _g_upper' = _g_upper
           /\ (_g_lower = <<>> /\ _g_lower' # <<>>)
              => _g_lower'[1] = g_iloc(levels, lines_lower_level_index)
           /\ (_g_upper = <<>> /\ _g_upper' # <<>>)
              => _g_upper'[1] = g_iloc(levels, lines_upper_level_index)
           /\ (ret'.op = "get_g_lower" /\ ret'.status = "ok")
              => ret'.g = _g_lower'[1]
           /\ (ret'.op = "get_g_upper" /\ ret'.status = "ok")
              => ret'.g = _g_upper'[1] ]_vars

\* C5 witness: get_g_lower called again with other levels or indices returns
\* the array cached before, which differs from what these arguments select.
C5_Witness ==
    /\ ret.op = "get_g_lower"
    /\ ret.status = "ok"
    /\ ~ret.fresh
    /\ AllInRange(lines_lower_level_index, NLevels)
    /\ ret.g # g_iloc(levels, lines_lower_level_index)
    /\ ret.g = _g_lower[1]

\* C6: calculate called with time_explosion <= 0 fails and returns no table.
C6_NonPositiveTimeFails ==
    (ret.op = "calculate" /\ ret.time <= 0) => ret.status # "ok"

\* C7: calculate fails with a lookup error whenever an entry of
\* lines_lower_level_index or lines_upper_level_index is outside
\* 0 .. number_of_levels - 1, negative values included.
C7_InvalidIndexFails ==
    (/\ ret.op = "calculate"
     /\ \E l \in Lines : \/ lines_lower_level_index[l] \notin Levels
                         \/ lines_upper_level_index[l] \notin Levels)
    => ret.status = "IndexError"

TpOk == tp_ret.status = "ok"
TpShells == DOMAIN tau_sobolevs[0]
BlockIds == 1 .. Len(block_references)
BlockFirst(i) == block_references[i]
BlockLast(i) ==
    IF i < Len(block_references) THEN block_references[i + 1] - 1
    ELSE NTransitions - 1
RawTotal(i, s) == ColumnSum(tp_ret.raw, s, BlockFirst(i), BlockLast(i))
NormalizedSum(i, s) ==
    ColumnSum(tp_ret.transition_probabilities, s, BlockFirst(i), BlockLast(i))

C9_BufferHoldsRoutineOutput ==
    (TpOk /\ ~beta_sobolevs_precalculated)
    => \A l \in DOMAIN tau_sobolevs, s \in TpShells :
           beta_sobolevs[l][s] = BetaSobolev(tau_sobolevs[l][s])

\* the weight Steps 2 and 3 give transition t in shell s
ExpectedWeight(t, s) ==
    LET l == macro_atom_data.lines_idx[t]
        w == RMul(Rat(macro_atom_data.transition_probability[t], 1),
                  beta_sobolevs[l][s])
    IN  IF macro_atom_data.transition_type[t] = 1
        THEN RMul(w, RMul(Rat(j_blues[l][s], 1), stimulated_emission_factor[l][s]))
        ELSE w

====
